---- MODULE Spec2Model ----
(***************************************************************************)
(* Model of src/src/output_devices_rppal.rs: the output primitive          *)
(* (OutputDeviceR) and the digital facade built by                         *)
(* impl_digital_output_device! (DigitalOutputDeviceR / LEDR / BuzzerR),   *)
(* and the PWM facade (PWMOutputDeviceR) with its fade sequence.           *)
(*                                                                         *)
(* One caller thread owns the facade; every blink()/beep() spawns a task   *)
(* thread.  All threads share one Mutex<OutputDeviceR> (lock) and one      *)
(* AtomicBool (blinking).  Every statement that touches shared state is a  *)
(* separate step, so the threads interleave as the code allows.  A         *)
(* statement `device.lock().unwrap().f()` takes the mutex, runs f and      *)
(* drops the guard at its end: it is one step, enabled when the mutex is   *)
(* free.  Time is abstracted: a thread in thread::sleep stays at its       *)
(* sleep position until the step of the statement after the sleep.         *)
(***************************************************************************)
EXTENDS Integers, Sequences, FiniteSets, TLC

\* Bounds of the exploration.
MaxTasks == 2      \* threads a facade spawns in one behaviour
MaxCount == 1      \* largest argument given to set_blink_count

MaxTime == 2       \* largest on_time / off_time of a fade, in seconds
MaxFade == 3       \* largest fade_in_time / fade_out_time, in half seconds

Tasks  == 1..MaxTasks
Counts == 0..MaxCount
Times  == 0..MaxTime
Fades  == 0..MaxFade

\* Option<_> values: None is the empty sequence, Some(x) is <<x>>.
None == <<>>
Some(x) == <<x>>

\* The mutex: 0 is free, a thread holding it would leave its id.
Free == 0

VARIABLES
    pin,            \* OutputDeviceR.pin level: TRUE = High, FALSE = Low
    active_state,   \* OutputDeviceR.active_state
    inactive_state, \* OutputDeviceR.inactive_state
    lock,           \* holder of Mutex<OutputDeviceR>
    blinking,       \* the AtomicBool shared by the facade and all its tasks
    handle,         \* facade.handle: 0 = None, t = Some(JoinHandle of task t)
    blink_count,    \* facade.blink_count: Option<i32>
    call,           \* digital facade method the caller is in, or returned from last
    callerPc,       \* the caller's position inside that method
    joinee,         \* wait(): the JoinHandle taken out of handle, 0 = none
    tpc,            \* tpc[t]: position of task thread t
    tn,             \* tn[t]: the n: Option<i32> moved into the closure
    ti,             \* tn[t] = Some(end): items the range 0..end has yielded
    wargs,          \* PWM blinker(): its arguments, None outside the call
    sequence,       \* PWM blinker(): the Vec<(f32, f32)> it builds
    tseq,           \* tseq[t]: the sequence moved into the closure of task t
    tk,             \* tk[t]: items `for (value, delay) in &sequence` has yielded
    duty            \* duty cycle last given to pin.set_pwm_frequency

vars == <<pin, active_state, inactive_state, lock, blinking, handle,
          blink_count, call, callerPc, joinee, tpc, tn, ti,
          wargs, sequence, tseq, tk, duty>>

\* The state only the PWM facade uses.
pwm == <<wargs, sequence, tseq, tk, duty>>

device == <<pin, active_state, inactive_state>>
threads == <<tpc, tn, ti>>

----------------------------------------------------------------------------
\* impl_io_device!

\* Variant of value_to_state that ignores the configured polarity.
value_to_state_polarity_blind(v) == v

value_to_state(v) == IF v THEN active_state ELSE inactive_state

state_to_value(state) == state = active_state

value == IF pin THEN state_to_value(TRUE) ELSE state_to_value(FALSE)

\* is_active() comes from a macro whose text is not part of the source file;
\* it reports the current logical value.
is_active == value

\* impl_output_device!: the pin level write_state(v) leaves behind.
write_state(v) == IF value_to_state(v) THEN TRUE ELSE FALSE

NumSpawned == Cardinality({t \in Tasks : tpc[t] # "unspawned"})

Alive(t) == tpc[t] \notin {"unspawned", "done"}

\* The caller is between two facade calls and still holds the facade.
Idle == callerPc = "ret" /\ call # "close"

----------------------------------------------------------------------------
Init ==
    /\ pin \in BOOLEAN
    /\ active_state = TRUE
    /\ inactive_state = FALSE
    /\ lock = Free
    /\ blinking = FALSE
    /\ handle = 0
    /\ blink_count = None
    /\ call = "new"
    /\ callerPc = "ret"
    /\ joinee = 0
    /\ tpc = [t \in Tasks |-> "unspawned"]
    /\ tn = [t \in Tasks |-> None]
    /\ ti = [t \in Tasks |-> 0]
    /\ wargs = None
    /\ sequence = <<>>
    /\ tseq = [t \in Tasks |-> <<>>]
    /\ tk = [t \in Tasks |-> 0]
    /\ duty = <<0, 1>>

----------------------------------------------------------------------------
\* The caller thread.

\* on(), off() and blinker() all begin with stop(); its first statement is
\* blinking.store(false).
stop_store(m) ==
    /\ Idle
    /\ m = "blink" => NumSpawned < MaxTasks
    /\ call' = m
    /\ blinking' = FALSE
    /\ callerPc' = "stop_low"
    /\ UNCHANGED pwm
    /\ UNCHANGED <<device, lock, handle, blink_count, joinee, threads>>

\* stop(): self.device.lock().unwrap().pin.set_low()
stop_set_low ==
    /\ callerPc = "stop_low"
    /\ lock = Free
    /\ pin' = FALSE
    /\ callerPc' = IF call = "blink" THEN "spawn" ELSE "write"
    /\ UNCHANGED pwm
    /\ UNCHANGED <<active_state, inactive_state, lock, blinking, handle,
                   blink_count, call, joinee, threads>>

\* on(): self.device.lock().unwrap().on()
on_write ==
    /\ call = "on" /\ callerPc = "write"
    /\ lock = Free
    /\ pin' = write_state(TRUE)
    /\ callerPc' = "ret"
    /\ UNCHANGED pwm
    /\ UNCHANGED <<active_state, inactive_state, lock, blinking, handle,
                   blink_count, call, joinee, threads>>

\* off(): self.device.lock().unwrap().off()
off_write ==
    /\ call = "off" /\ callerPc = "write"
    /\ lock = Free
    /\ pin' = write_state(FALSE)
    /\ callerPc' = "ret"
    /\ UNCHANGED pwm
    /\ UNCHANGED <<active_state, inactive_state, lock, blinking, handle,
                   blink_count, call, joinee, threads>>

\* blinker(): thread::spawn and the store of the JoinHandle into self.handle;
\* the handle of an earlier task is overwritten, which detaches that thread.
blinker_spawn ==
    /\ call = "blink" /\ callerPc = "spawn"
    /\ LET t == NumSpawned + 1 IN
        /\ handle' = t
        /\ tpc' = [tpc EXCEPT ![t] = "start"]
        /\ tn' = [tn EXCEPT ![t] = blink_count]
    /\ callerPc' = "ret"
    /\ UNCHANGED pwm
    /\ UNCHANGED <<device, lock, blinking, blink_count, call, joinee, ti>>

set_blink_count(n) ==
    /\ Idle
    /\ call' = "set_blink_count"
    /\ blink_count' = Some(n)
    /\ UNCHANGED pwm
    /\ UNCHANGED <<device, lock, blinking, handle, callerPc, joinee, threads>>

\* Variant of toggle with its two branches exchanged.
toggle_same_branch ==
    /\ Idle
    /\ lock = Free
    /\ call' = "toggle"
    /\ pin' = IF is_active THEN write_state(TRUE) ELSE write_state(FALSE)
    /\ UNCHANGED pwm
    /\ UNCHANGED <<active_state, inactive_state, lock, blinking, handle,
                   blink_count, callerPc, joinee, threads>>

\* toggle() of the facade does not call stop():
\* self.device.lock().unwrap().toggle()
toggle ==
    /\ Idle
    /\ lock = Free
    /\ call' = "toggle"
    /\ pin' = IF is_active THEN write_state(FALSE) ELSE write_state(TRUE)
    /\ UNCHANGED pwm
    /\ UNCHANGED <<active_state, inactive_state, lock, blinking, handle,
                   blink_count, callerPc, joinee, threads>>

\* Variant of set_active_high that also inverts the pin level, so that the
\* logical value survives the change of polarity.
set_active_high_keeps_value(b) ==
    /\ Idle
    /\ lock = Free
    /\ call' = "set_active_high"
    /\ IF b THEN active_state' = TRUE /\ inactive_state' = FALSE
            ELSE active_state' = FALSE /\ inactive_state' = TRUE
    /\ pin' = IF active_state' # active_state THEN ~pin ELSE pin
    /\ UNCHANGED pwm
    /\ UNCHANGED <<lock, blinking, handle, blink_count, callerPc, joinee, threads>>

\* Variant of set_active_high that assigns active_state only.
set_active_high_one_field(b) ==
    /\ Idle
    /\ lock = Free
    /\ call' = "set_active_high"
    /\ active_state' = b
    /\ UNCHANGED pwm
    /\ UNCHANGED <<pin, inactive_state, lock, blinking, handle, blink_count,
                   callerPc, joinee, threads>>

\* self.device.lock().unwrap().set_active_high(value)
set_active_high(b) ==
    /\ Idle
    /\ lock = Free
    /\ call' = "set_active_high"
    /\ IF b THEN active_state' = TRUE /\ inactive_state' = FALSE
            ELSE active_state' = FALSE /\ inactive_state' = TRUE
    /\ UNCHANGED pwm
    /\ UNCHANGED <<pin, lock, blinking, handle, blink_count, callerPc, joinee, threads>>

\* Variant of wait_panic without the expect(): the caller goes on to join.
wait_panic_blocks ==
    /\ Idle
    /\ handle = 0
    /\ call' = "wait"
    /\ callerPc' = "join"
    /\ UNCHANGED pwm
    /\ UNCHANGED <<device, lock, blinking, handle, blink_count, joinee, threads>>

\* wait(): self.handle.take() yields None and expect() panics.
wait_panic ==
    /\ Idle
    /\ handle = 0
    /\ call' = "wait"
    /\ callerPc' = "panic"
    /\ UNCHANGED pwm
    /\ UNCHANGED <<device, lock, blinking, handle, blink_count, joinee, threads>>

\* wait(): self.handle.take() yields the JoinHandle and leaves None behind.
wait_take ==
    /\ Idle
    /\ handle # 0
    /\ call' = "wait"
    /\ joinee' = handle
    /\ handle' = 0
    /\ callerPc' = "join"
    /\ UNCHANGED pwm
    /\ UNCHANGED <<device, lock, blinking, blink_count, threads>>

\* wait(): join() returns once the joined thread has terminated.
wait_join ==
    /\ call = "wait" /\ callerPc = "join"
    /\ joinee # 0
    /\ tpc[joinee] = "done"
    /\ joinee' = 0
    /\ callerPc' = "ret"
    /\ UNCHANGED pwm
    /\ UNCHANGED <<device, lock, blinking, handle, blink_count, call, threads>>

\* close(): drop(self).  The JoinHandle is dropped without a join; the task
\* threads keep their own Arc clones of device and blinking.
close ==
    /\ Idle
    /\ call' = "close"
    /\ handle' = 0
    /\ UNCHANGED pwm
    /\ UNCHANGED <<device, lock, blinking, blink_count, callerPc, joinee, threads>>

----------------------------------------------------------------------------
\* The task thread spawned by blinker().  Its positions: "start" before the
\* first statement, "check" at the head of the loop, "on" and "brk" after
\* a load of the flag that gave true / false, "sleep_on" and "sleep_off" in
\* the two sleeps, "done" once the closure has returned.

\* blinking.store(true, SeqCst)
task_start(t) ==
    /\ tpc[t] = "start"
    /\ blinking' = TRUE
    /\ tpc' = [tpc EXCEPT ![t] = "check"]
    /\ UNCHANGED pwm
    /\ UNCHANGED <<device, lock, handle, blink_count, call, callerPc, joinee, tn, ti>>

\* Head of the loop, reached from the start or when the off_time sleep
\* returns: `for _ in 0..end` yields its next item or ends the loop (`loop`
\* always goes on), then blinking.load(SeqCst) is tested.  When the loop ends
\* the closure returns and its captured n and range are gone.
task_check(t) ==
    /\ tpc[t] \in {"check", "sleep_off"}
    /\ IF tn[t] # None /\ ~(ti[t] < tn[t][1])
         THEN /\ tpc' = [tpc EXCEPT ![t] = "done"]
              /\ tn' = [tn EXCEPT ![t] = None]
              /\ ti' = [ti EXCEPT ![t] = 0]
         ELSE /\ ti' = IF tn[t] # None THEN [ti EXCEPT ![t] = @ + 1] ELSE ti
              /\ tpc' = [tpc EXCEPT ![t] = IF blinking THEN "on" ELSE "brk"]
              /\ UNCHANGED tn
    /\ UNCHANGED pwm
    /\ UNCHANGED <<device, lock, blinking, handle, blink_count, call, callerPc, joinee>>

\* The write with the MutexGuard bound to a local, so that it lives through
\* the sleep: let d = device.lock().unwrap(); d.on(); thread::sleep(on_time)
task_on_guard_kept(t) ==
    /\ tpc[t] = "on"
    /\ lock = Free
    /\ lock' = t
    /\ pin' = write_state(TRUE)
    /\ tpc' = [tpc EXCEPT ![t] = "sleep_on"]
    /\ UNCHANGED pwm
    /\ UNCHANGED <<active_state, inactive_state, blinking, handle,
                   blink_count, call, callerPc, joinee, tn, ti>>

\* device.lock().unwrap().on(); the thread then sleeps on_time
task_on(t) ==
    /\ tpc[t] = "on"
    /\ lock = Free
    /\ pin' = write_state(TRUE)
    /\ tpc' = [tpc EXCEPT ![t] = "sleep_on"]
    /\ UNCHANGED pwm
    /\ UNCHANGED <<active_state, inactive_state, lock, blinking, handle,
                   blink_count, call, callerPc, joinee, tn, ti>>

\* the on_time sleep returns; device.lock().unwrap().off(); the thread then
\* sleeps off_time
task_off(t) ==
    /\ tpc[t] = "sleep_on"
    /\ lock = Free
    /\ pin' = write_state(FALSE)
    /\ tpc' = [tpc EXCEPT ![t] = "sleep_off"]
    /\ UNCHANGED pwm
    /\ UNCHANGED <<active_state, inactive_state, lock, blinking, handle,
                   blink_count, call, callerPc, joinee, tn, ti>>

\* device.lock().unwrap().off(); break: the closure returns
task_break(t) ==
    /\ tpc[t] = "brk"
    /\ lock = Free
    /\ pin' = write_state(FALSE)
    /\ tpc' = [tpc EXCEPT ![t] = "done"]
    /\ tn' = [tn EXCEPT ![t] = None]
    /\ ti' = [ti EXCEPT ![t] = 0]
    /\ UNCHANGED pwm
    /\ UNCHANGED <<active_state, inactive_state, lock, blinking, handle,
                   blink_count, call, callerPc, joinee>>

----------------------------------------------------------------------------
Next ==
    \/ \E m \in {"on", "off", "blink"} : stop_store(m)
    \/ stop_set_low
    \/ on_write
    \/ off_write
    \/ blinker_spawn
    \/ \E n \in Counts : set_blink_count(n)
    \/ toggle
    \/ \E b \in BOOLEAN : set_active_high(b)
    \/ wait_panic
    \/ wait_take
    \/ wait_join
    \/ close
    \/ \E t \in Tasks : task_start(t)
    \/ \E t \in Tasks : task_check(t)
    \/ \E t \in Tasks : task_on(t)
    \/ \E t \in Tasks : task_off(t)
    \/ \E t \in Tasks : task_break(t)

Spec == Init /\ [][Next]_vars

TypeOK ==
    /\ pin \in BOOLEAN /\ active_state \in BOOLEAN /\ inactive_state \in BOOLEAN
    /\ lock \in {Free} \cup Tasks
    /\ blinking \in BOOLEAN
    /\ handle \in 0..MaxTasks /\ joinee \in 0..MaxTasks
    /\ blink_count \in {None} \cup {Some(n) : n \in Counts}
    /\ callerPc \in {"ret", "stop_low", "write", "spawn", "join", "panic"}
    /\ \A t \in Tasks : tpc[t] \in {"unspawned", "start", "check", "on", "brk",
                                   "sleep_on", "sleep_off", "done"}

----------------------------------------------------------------------------
\* PWMOutputDeviceR.  A fade time is counted in half seconds, so that
\* fractional times occur; on_time and off_time are whole seconds.  An
\* intensity and a delay are exact fractions <<numerator, denominator>>.

\* let fps = 25.0
fps == 25

\* `fade_time as i32`: the cast of the f32 drops the fraction.
as_i32(h) == h \div 2

\* The fade-in loop with an inclusive range, 0..=bound.
fade_in_inclusive(h) ==
    [j \in 1..(fps * as_i32(h) + 1) |->
        [value |-> <<2 * (j - 1), fps * h>>, delay |-> <<1, fps>>]]

\* for i in 0..fps as i32 * fade_in_time as i32:
\*     (i as f32 * (1.0 / fps) / fade_in_time, 1.0 / fps)
fade_in(h) ==
    [j \in 1..(fps * as_i32(h)) |->
        [value |-> <<2 * (j - 1), fps * h>>, delay |-> <<1, fps>>]]

\* for i in 0..fps as i32 * fade_out_time as i32:
\*     (1.0 - (i as f32 * (1.0 / fps) / fade_out_time), 1.0 / fps)
fade_out(h) ==
    [j \in 1..(fps * as_i32(h)) |->
        [value |-> <<fps * h - 2 * (j - 1), fps * h>>, delay |-> <<1, fps>>]]

\* The whole sequence blinker() pushes.
waveform(on_time, off_time, fade_in_time, fade_out_time) ==
    fade_in(fade_in_time)
        \o <<[value |-> <<1, 1>>, delay |-> <<on_time, 1>>]>>
        \o fade_out(fade_out_time)
        \o <<[value |-> <<0, 1>>, delay |-> <<off_time, 1>>]>>

\* The caller of the PWM facade is between two calls.
PwmIdle == callerPc = "pwm_ret"

\* PWMOutputDeviceR::new.  `call` names the facade from here on: the last
\* call is recorded for the digital facade only.
PwmInit ==
    /\ pin \in BOOLEAN
    /\ active_state = TRUE
    /\ inactive_state = FALSE
    /\ lock = Free
    /\ blinking = FALSE
    /\ handle = 0
    /\ blink_count = None
    /\ call = "pwm_new"
    /\ callerPc = "pwm_ret"
    /\ joinee = 0
    /\ tpc = [t \in Tasks |-> "unspawned"]
    /\ tn = [t \in Tasks |-> None]
    /\ ti = [t \in Tasks |-> 0]
    /\ wargs = None
    /\ sequence = <<>>
    /\ tseq = [t \in Tasks |-> <<>>]
    /\ tk = [t \in Tasks |-> 0]
    /\ duty = <<0, 1>>

\* blinker(): the construction of the sequence, up to the spawn.
pwm_blinker(on_time, off_time, fade_in_time, fade_out_time, n) ==
    /\ PwmIdle
    /\ NumSpawned < MaxTasks
    /\ wargs' = Some([on_time |-> on_time, off_time |-> off_time,
                      fade_in_time |-> fade_in_time,
                      fade_out_time |-> fade_out_time, n |-> n])
    /\ sequence' = waveform(on_time, off_time, fade_in_time, fade_out_time)
    /\ callerPc' = "pwm_spawn"
    /\ UNCHANGED <<device, lock, blinking, handle, blink_count, call, joinee,
                   threads, tseq, tk, duty>>

\* blinker(): thread::spawn with the sequence and n moved into the closure,
\* and the store of the JoinHandle.  Nothing is stored into blinking first.
pwm_spawn ==
    /\ callerPc = "pwm_spawn"
    /\ LET t == NumSpawned + 1 IN
        /\ handle' = t
        /\ tpc' = [tpc EXCEPT ![t] = "pwm_start"]
        /\ tn' = [tn EXCEPT ![t] = wargs[1].n]
        /\ tseq' = [tseq EXCEPT ![t] = sequence]
    /\ wargs' = None
    /\ sequence' = <<>>
    /\ callerPc' = "pwm_ret"
    /\ UNCHANGED <<device, lock, blinking, blink_count, call, joinee, ti, tk, duty>>

\* set_value(duty): device.lock().unwrap().pin.set_pwm_frequency(100.0, duty)
pwm_set_value(d) ==
    /\ PwmIdle
    /\ lock = Free
    /\ duty' = d
    /\ UNCHANGED <<device, lock, blinking, handle, blink_count, call, callerPc,
                   joinee, threads, wargs, sequence, tseq, tk>>

\* The request to stop a fade: the cancellation flag is set to false.  The
\* PWM facade of the source file has no method that does this.
pwm_stop ==
    /\ PwmIdle
    /\ blinking' = FALSE
    /\ UNCHANGED <<device, lock, handle, blink_count, call, callerPc, joinee,
                   threads, pwm>>

\* The fade task.  Its positions: "pwm_start" before the first statement,
\* "pwm_outer" at the head of the repeat loop, "pwm_inner" at the head of
\* the loop over the sequence, "pwm_write" after a load of the flag that gave
\* true, "pwm_brk" after a load that gave false and the `break` it leads
\* to, "pwm_sleep" in the sleep of a step, "done" once the closure has
\* returned.

\* blinking.store(true, SeqCst)
pwm_task_start(t) ==
    /\ tpc[t] = "pwm_start"
    /\ blinking' = TRUE
    /\ tpc' = [tpc EXCEPT ![t] = "pwm_outer"]
    /\ UNCHANGED <<device, lock, handle, blink_count, call, callerPc, joinee, tn, ti, pwm>>

\* Head of the repeat loop, reached at first, when the loop over the
\* sequence has ended or after its `break`: `for _ in 0..end` yields its next
\* item or ends (`loop` always goes on); the loop over the sequence starts
\* afresh.
pwm_task_outer(t) ==
    /\ tpc[t] \in {"pwm_outer", "pwm_brk"}
    /\ IF tn[t] # None /\ ~(ti[t] < tn[t][1])
         THEN /\ tpc' = [tpc EXCEPT ![t] = "done"]
              /\ tn' = [tn EXCEPT ![t] = None]
              /\ ti' = [ti EXCEPT ![t] = 0]
              /\ tseq' = [tseq EXCEPT ![t] = <<>>]
         ELSE /\ ti' = IF tn[t] # None THEN [ti EXCEPT ![t] = @ + 1] ELSE ti
              /\ tpc' = [tpc EXCEPT ![t] = "pwm_inner"]
              /\ UNCHANGED <<tn, tseq>>
    /\ tk' = [tk EXCEPT ![t] = 0]
    /\ UNCHANGED <<device, lock, blinking, handle, blink_count, call, callerPc,
                   joinee, wargs, sequence, duty>>

\* Head of the loop over the sequence, reached from the repeat loop or when
\* the sleep of a step returns: the iterator yields the next step or ends
\* the loop, then blinking.load(SeqCst) is tested; on false, `break` leaves
\* the loop over the sequence and the repeat loop goes on.
pwm_task_inner(t) ==
    /\ tpc[t] \in {"pwm_inner", "pwm_sleep"}
    /\ IF tk[t] < Len(tseq[t])
         THEN /\ tk' = [tk EXCEPT ![t] = @ + 1]
              /\ tpc' = [tpc EXCEPT ![t] = IF blinking THEN "pwm_write" ELSE "pwm_brk"]
         ELSE /\ tpc' = [tpc EXCEPT ![t] = "pwm_outer"]
              /\ UNCHANGED tk
    /\ UNCHANGED <<device, lock, blinking, handle, blink_count, call, callerPc,
                   joinee, tn, ti, wargs, sequence, tseq, duty>>

\* device.lock().unwrap().pin.set_pwm_frequency(100.0, *value as f64); the
\* thread then sleeps for the delay of the step
pwm_task_write(t) ==
    /\ tpc[t] = "pwm_write"
    /\ lock = Free
    /\ duty' = tseq[t][tk[t]].value
    /\ tpc' = [tpc EXCEPT ![t] = "pwm_sleep"]
    /\ UNCHANGED <<device, lock, blinking, handle, blink_count, call, callerPc,
                   joinee, tn, ti, wargs, sequence, tseq, tk>>

\* Arguments of the fades the tasks replay: fade times below one second.
ShortFades == {h \in Fades : as_i32(h) = 0}
Duties == {<<0, 1>>, <<1, 2>>}

PwmNext ==
    \/ \E on_time, off_time \in {MaxTime}, fi, fo \in ShortFades,
          n \in {None} \cup {Some(c) : c \in Counts} :
            pwm_blinker(on_time, off_time, fi, fo, n)
    \/ pwm_spawn
    \/ \E d \in Duties : pwm_set_value(d)
    \/ pwm_stop
    \/ \E t \in Tasks : pwm_task_start(t)
    \/ \E t \in Tasks : pwm_task_outer(t)
    \/ \E t \in Tasks : pwm_task_inner(t)
    \/ \E t \in Tasks : pwm_task_write(t)

SpecPWM == PwmInit /\ [][PwmNext]_vars

\* The sequence construction alone, over all argument values.
WaveNext ==
    \E on_time, off_time \in Times, fi, fo \in Fades :
        pwm_blinker(on_time, off_time, fi, fo, None)

SpecWave == PwmInit /\ [][WaveNext]_vars

\* Either facade.
SpecAll == (Init \/ PwmInit) /\ [][Next \/ PwmNext]_vars

----------------------------------------------------------------------------
\* Positions the properties below refer to.

Returned(m) == call = m /\ callerPc = "ret"

NoTaskAlive == \A t \in Tasks : ~Alive(t)

\* A step in which some thread completes a logical write of TRUE / of FALSE
\* through OutputDeviceR::on / off.
WritesOn ==
    \/ call = "on" /\ callerPc = "write" /\ callerPc' = "ret"
    \/ \E t \in Tasks : tpc[t] = "on" /\ tpc'[t] = "sleep_on"

WritesOff ==
    \/ call = "off" /\ callerPc = "write" /\ callerPc' = "ret"
    \/ \E t \in Tasks : tpc[t] = "sleep_on" /\ tpc'[t] = "sleep_off"
    \/ \E t \in Tasks : tpc[t] = "brk" /\ tpc'[t] = "done"

----------------------------------------------------------------------------
\* C1: once a blink task has been started, whenever on() has returned and no
\* further facade call has been made, the logical value of the primitive is
\* active (on() cancelled the task, no task write changes the value again).
C1_OnCancelsBlink ==
    (Returned("on") /\ NumSpawned >= 1) => value

\* C2: a stop signal issued by on() or off() after blink() returned is never
\* overridden: while the caller rests after that on()/off() and the facade
\* still holds the task's handle, the cancellation flag stays false, so the
\* task's own initial store of true cannot undo the signal.
C2_StopSignalPersists ==
    ((Returned("on") \/ Returned("off")) /\ handle # 0) => ~blinking

\* C3: a task started by a later blink()/beep() owns a fresh cancellation
\* flag: when it stores true into its flag at start-up, the flag polled by an
\* earlier task that is still running its loop keeps its value, so a stop
\* signal given to the earlier task is not taken back.
C3_NewTaskLeavesOldFlag ==
    [][\A t \in Tasks :
          (/\ tpc[t] = "start" /\ tpc'[t] = "check"
           /\ \E o \in Tasks : o < t /\ Alive(o) /\ tpc[o] # "start")
              => blinking' = blinking]_vars

\* A step in which task t terminates.
Terminates(t) == tpc[t] # "done" /\ tpc'[t] = "done"

\* C4: the only task of a facade, started with Finite(n), n >= 0, and left
\* alone by the caller, terminates by exhausting its loop after exactly n
\* iterations, and the primitive is logically inactive at that moment.
C4_FiniteBlinkRunsNTimes ==
    [][(/\ Returned("blink") /\ NumSpawned = 1 /\ Terminates(1)
        /\ tn[1] # None /\ tn[1][1] >= 0)
           => (tpc[1] # "brk" /\ ti[1] = tn[1][1] /\ ~value')]_vars

\* C5: the only task of a facade, started with Finite(0), terminates without
\* an on/off step and the primitive ends logically inactive, for active-high
\* and for active-low polarity.
C5_FiniteZeroEndsInactive ==
    [][(Returned("blink") /\ NumSpawned = 1 /\ Terminates(1) /\ tn[1] = Some(0))
           => (tpc[1] # "brk" /\ ti[1] = 0 /\ ~value')]_vars

\* C6: immediately after the stop step of blink()/on()/off() has completed,
\* value() is false, for active-high and for active-low polarity.
C6_StopForcesInactive ==
    [][(callerPc = "stop_low" /\ callerPc' # "stop_low") => ~value']_vars

\* C7: wait() called while the facade holds no task handle ends in the
\* error outcome (the panic of expect) instead of blocking in join, and
\* leaves the primitive, the cancellation flag, the absent handle and all
\* task threads as they were.
C7_WaitWithoutTaskFails ==
    [][(Idle /\ handle = 0 /\ call' = "wait" /\ callerPc' # "ret")
          => (/\ callerPc' = "panic"
              /\ UNCHANGED <<device, lock, blinking, handle, joinee, threads>>)]_vars

\* C7 witness: wait() has panicked on a facade whose task handle an earlier
\* wait() had consumed.
C7_Witness ==
    call = "wait" /\ callerPc = "panic" /\ NumSpawned >= 1 /\ handle = 0

\* C8: in the state where wait() has returned normally, no task thread the
\* facade ever spawned is alive.
C8_WaitJoinsEveryTask ==
    Returned("wait") => NoTaskAlive

\* C9: after close() has returned no task thread of the facade is running.
C9_CloseStopsTasks ==
    call = "close" => NoTaskAlive

\* C10: for both polarities and every prior pin level, value() is true right
\* after a logical write of true and false right after a logical write of
\* false.
C10_WriteValueRoundTrip ==
    [][(WritesOn => value') /\ (WritesOff => ~value')]_vars

\* C10 witness: on() has written through an active-low primitive and the
\* pin, driven low, reads back as logically active.
C10_Witness ==
    Returned("on") /\ ~active_state /\ ~pin /\ value

----------------------------------------------------------------------------
\* Steps of the caller that are one whole facade call.

\* toggle(): the caller rests in toggle afterwards and no task has moved.
ToggleStep == Idle /\ call' = "toggle" /\ callerPc' = "ret" /\ tpc' = tpc

\* set_active_high(b): a call entered from another method, or one that
\* changes the polarity.
SetActiveHighStep ==
    /\ Idle /\ call' = "set_active_high"
    /\ (call # "set_active_high" \/ active_state' # active_state)

\* C11: for both polarities and every pin level, one toggle() inverts the
\* logical value of the primitive; two toggle() calls with no task write in
\* between therefore bring back the original value.
C11_ToggleInverts ==
    [][ToggleStep => (value' = ~value)]_vars

\* C11 witness: toggle() has returned on an active-low primitive and left
\* it logically active.
C11_Witness ==
    Returned("toggle") /\ ~active_state /\ value

C17_ToggleCancelsBlink ==
    [][(ToggleStep /\ \E t \in Tasks : Alive(t)) => ~blinking']_vars

\* C19: in every reachable state inactive_state is the negation of
\* active_state.
C19_ComplementaryStates ==
    inactive_state = ~active_state

\* C19 witness: the polarity has been set active-low and a task has since
\* written the primitive.
C19_Witness ==
    /\ ~active_state /\ inactive_state
    /\ \E t \in Tasks : tpc[t] = "sleep_on"

----------------------------------------------------------------------------
\* The PWM waveform.

\* Two fractions denote the same number.
SameFraction(a, b) == a[2] # 0 /\ b[2] # 0 /\ a[1] * b[2] = b[1] * a[2]

\* The step of a sequence has the given intensity and duration.
IsStep(s, value_, delay_) == SameFraction(s.value, value_) /\ SameFraction(s.delay, delay_)

\* blinker() has built the sequence for its arguments and not yet spawned.
Built == wargs # None

\* C12: the sequence blinker() builds has floor(25 * fade_in_time) fade-in
\* steps, the i-th of intensity i / (25 * fade_in_time) and duration 1/25,
\* then the hold-on step (1.0, on_time), then floor(25 * fade_out_time)
\* fade-out steps, then the hold-off step (0.0, off_time), for fractional
\* fade times too (a fade time of h half seconds gives floor(25 * h / 2)
\* steps).
C12_WaveformSteps ==
    Built =>
        LET a    == wargs[1]
            nin  == (fps * a.fade_in_time) \div 2
            nout == (fps * a.fade_out_time) \div 2
        IN  /\ Len(sequence) = nin + 1 + nout + 1
            /\ \A i \in 0..(nin - 1) :
                  IsStep(sequence[i + 1], <<2 * i, fps * a.fade_in_time>>, <<1, fps>>)
            /\ IsStep(sequence[nin + 1], <<1, 1>>, <<a.on_time, 1>>)
            /\ \A i \in 0..(nout - 1) :
                  SameFraction(sequence[nin + 1 + i + 1].delay, <<1, fps>>)
            /\ IsStep(sequence[nin + 1 + nout + 1], <<0, 1>>, <<a.off_time, 1>>)

\* C13: with fade_in_time = 0 and fade_out_time = 0 the sequence is exactly
\* (1.0, on_time), (0.0, off_time), and no step of it was computed by a
\* division by zero.
C13_ZeroFadesTwoSteps ==
    (Built /\ wargs[1].fade_in_time = 0 /\ wargs[1].fade_out_time = 0) =>
        /\ Len(sequence) = 2
        /\ \A j \in 1..Len(sequence) :
              sequence[j].value[2] # 0 /\ sequence[j].delay[2] # 0
        /\ IsStep(sequence[1], <<1, 1>>, <<wargs[1].on_time, 1>>)
        /\ IsStep(sequence[2], <<0, 1>>, <<wargs[1].off_time, 1>>)

C13_Witness ==
    /\ Built /\ callerPc = "pwm_spawn"
    /\ wargs[1].fade_in_time = 0 /\ wargs[1].fade_out_time = 0
    /\ wargs[1].on_time = MaxTime /\ wargs[1].off_time = 1
    /\ Len(sequence) = 2

----------------------------------------------------------------------------
\* The PWM fade task.

\* C14: a fade task that has observed the cancellation flag false ends: its
\* next step is the end of the thread, under the finite and the infinite
\* repeat policy; it does not go on with its repeat loop.
C14_CancelledFadeEnds ==
    [][\A t \in Tasks :
          (tpc[t] = "pwm_brk" /\ tpc'[t] # tpc[t]) => tpc'[t] = "done"]_vars

\* C15: when blinker() spawns a fade task while an earlier fade task of the
\* facade is alive, the earlier task has been signalled to stop: the
\* cancellation flag is false when the spawn returns.
C15_BlinkerSignalsOldFade ==
    [][(callerPc = "pwm_spawn" /\ callerPc' = "pwm_ret" /\ \E o \in Tasks : Alive(o))
          => ~blinking']_vars

----------------------------------------------------------------------------
\* The lock and the sleeps.

\* The task is inside a sleep (on_time, off_time or the delay of a step).
Sleeping(t) == tpc[t] \in {"sleep_on", "sleep_off", "pwm_sleep"}

\* C18: a background task, digital or PWM, does not hold the lock of the
\* shared device while it sleeps: whenever a task is inside a sleep the
\* lock is free or held by another thread.
C18_NoLockWhileSleeping == \A t \in Tasks : Sleeping(t) => lock # t

C18_Witness ==
    /\ \E t \in Tasks : tpc[t] = "sleep_off" /\ lock # t
    /\ \E t \in Tasks : tpc[t] = "sleep_on" /\ lock # t
    /\ Idle

====
